---- MODULE Spec2Model ----
(***************************************************************************)
(* ProxySegment (lib/collection/src/segment_manager/holders/               *)
(* proxy_segment.rs) and build_optimizers (lib/collection/src/             *)
(* collection_builder/optimizers_builder.rs) as a state machine.           *)
(*                                                                         *)
(* The segment engine behind LockedSegment (crate `segment`) is not part   *)
(* of the sources at hand; the Segment_* operators model it from section   *)
(* 4.A / 7 of the specification.                                           *)
(***************************************************************************)
EXTENDS Integers, Sequences, FiniteSets, TLC

(* ------------------------------ bounds --------------------------------- *)
MaxOp == 2

PointIds == {1, 2}
SeqNumbers == 0..MaxOp
Vectors == {1, 2}
PayloadKeys == {"color", "size"}
PayloadValues == {"red"}
NoValue == "none"
Payloads == [PayloadKeys -> PayloadValues \cup {NoValue}]
EmptyPayload == [k \in PayloadKeys |-> NoValue]
FullPayload == [k \in PayloadKeys |-> "red"]
ErrorKinds == {"ServiceError"}

Max(a, b) == IF a >= b THEN a ELSE b
Abs(x) == IF x < 0 THEN 0 - x ELSE x

(* OperationResult<T> *)
Ok(v) == [kind |-> "Ok", val |-> v]
Err(e) == [kind |-> "Err", val |-> e]
IsErr(r) == r.kind = "Err"

(* Fault injection: the one fallible call of the engine that fails in this
   call of the proxy, and the error it raises. *)
NoFault == [at |-> "none", err |-> "none"]
FaultSteps == {"wrapped_vector", "wrapped_payload", "move_upsert", "move_payload",
               "apply", "drop_data"}
Faults == {NoFault} \cup [at : FaultSteps, err : ErrorKinds]
FaultAt(flt, step) == IF flt.at = step THEN flt.err ELSE "none"

(* ----------------------- the segment engine ---------------------------- *)
NoPoint == [live |-> FALSE, vec |-> 0, payload |-> EmptyPayload]
LivePoint(v, pl) == [live |-> TRUE, vec |-> v, payload |-> pl]

Segment_new(pts, ver, idx, cfg) ==
    [points |-> pts, version |-> ver, indexed |-> idx, deleted |-> 0,
     dropped |-> FALSE, config |-> cfg]

Segment_version(seg) == seg.version
Segment_has_point(seg, point_id) == seg.points[point_id].live
Segment_points(seg) == {p \in PointIds : seg.points[p].live}
Segment_vectors_count(seg) == Cardinality(Segment_points(seg))
Segment_deleted_count(seg) == seg.deleted
Segment_config(seg) == seg.config
Segment_get_indexed_fields(seg) == seg.indexed

Segment_vector(seg, point_id, fault) ==
    IF fault # "none" THEN Err(fault)
    ELSE IF ~seg.points[point_id].live THEN Err("PointIdError")
    ELSE Ok(seg.points[point_id].vec)

Segment_payload(seg, point_id, fault) ==
    IF fault # "none" THEN Err(fault)
    ELSE IF ~seg.points[point_id].live THEN Err("PointIdError")
    ELSE Ok(seg.points[point_id].payload)

(* The version gate of section 4.A: op_num <= version is a no-op returning
   Ok(false); an error leaves the version where it was; an applied mutator
   advances the version to op_num. *)
Segment_skip_by_version(seg, op_num) == op_num <= seg.version

Segment_mutate(seg, op_num, fault, needs_point, point_id, applied, result) ==
    IF Segment_skip_by_version(seg, op_num) THEN [seg |-> seg, res |-> Ok(FALSE)]
    ELSE IF fault # "none" THEN [seg |-> seg, res |-> Err(fault)]
    ELSE IF needs_point /\ ~seg.points[point_id].live
         THEN [seg |-> seg, res |-> Err("PointIdError")]
    ELSE [seg |-> [applied EXCEPT !.version = op_num], res |-> Ok(result)]

Segment_upsert_point(seg, op_num, point_id, vec, fault) ==
    Segment_mutate(seg, op_num, fault, FALSE, point_id,
        [seg EXCEPT !.points[point_id] =
            LivePoint(vec, IF @.live THEN @.payload ELSE EmptyPayload)],
        TRUE)

Segment_delete_point(seg, op_num, point_id, fault) ==
    Segment_mutate(seg, op_num, fault, FALSE, point_id,
        IF seg.points[point_id].live
        THEN [seg EXCEPT !.points[point_id] = NoPoint, !.deleted = @ + 1]
        ELSE seg,
        seg.points[point_id].live)

Segment_set_full_payload(seg, op_num, point_id, full_payload, fault) ==
    Segment_mutate(seg, op_num, fault, TRUE, point_id,
        [seg EXCEPT !.points[point_id].payload = full_payload], TRUE)

Segment_set_payload(seg, op_num, point_id, key, value, fault) ==
    Segment_mutate(seg, op_num, fault, TRUE, point_id,
        [seg EXCEPT !.points[point_id].payload[key] = value], TRUE)

Segment_delete_payload(seg, op_num, point_id, key, fault) ==
    Segment_mutate(seg, op_num, fault, TRUE, point_id,
        [seg EXCEPT !.points[point_id].payload[key] = NoValue], TRUE)

Segment_clear_payload(seg, op_num, point_id, fault) ==
    Segment_mutate(seg, op_num, fault, TRUE, point_id,
        [seg EXCEPT !.points[point_id].payload = EmptyPayload], TRUE)

Segment_create_field_index(seg, op_num, key, fault) ==
    Segment_mutate(seg, op_num, fault, FALSE, 0,
        [seg EXCEPT !.indexed = @ \cup {key}], TRUE)

Segment_delete_field_index(seg, op_num, key, fault) ==
    Segment_mutate(seg, op_num, fault, FALSE, 0,
        [seg EXCEPT !.indexed = @ \ {key}], TRUE)

Segment_drop_data(seg, fault) ==
    IF fault # "none" THEN [seg |-> seg, res |-> Err(fault)]
    ELSE [seg |-> [seg EXCEPT !.dropped = TRUE], res |-> Ok(TRUE)]

(* SegmentInfo of a plain segment; the byte sizes and the schema are the
   engine's own and are left out. *)
Segment_info(seg) ==
    [num_vectors |-> Segment_vectors_count(seg),
     num_deleted_vectors |-> seg.deleted]

(* Filter { must, must_not } over Condition::HasId(set); Option<..> as a
   record with a `some` flag. *)
None == [some |-> FALSE]
Some(x) == [some |-> TRUE, v |-> x]
HasId(ids) == [has_id |-> ids]
Filter_new_must_not(cond) == [must |-> None, must_not |-> Some(<<cond>>)]
Filter_new_must(cond) == [must |-> Some(<<cond>>), must_not |-> None]

ConditionHolds(cond, point_id) == point_id \in cond.has_id

FilterAccepts(filter, point_id) ==
    \/ ~filter.some
    \/ /\ \/ ~filter.v.must.some
          \/ \A i \in DOMAIN filter.v.must.v : ConditionHolds(filter.v.must.v[i], point_id)
       /\ \/ ~filter.v.must_not.some
          \/ \A i \in DOMAIN filter.v.must_not.v :
                 ~ConditionHolds(filter.v.must_not.v[i], point_id)

Score(seg, vector, point_id) == 0 - Abs(seg.points[point_id].vec - vector)

(* p is ranked before q: higher score first, lower id on a tie *)
Before(seg, vector, p, q) ==
    \/ Score(seg, vector, p) > Score(seg, vector, q)
    \/ Score(seg, vector, p) = Score(seg, vector, q) /\ p < q

RECURSIVE Ranked(_, _, _)
Ranked(seg, vector, ids) ==
    IF ids = {} THEN <<>>
    ELSE LET best == CHOOSE p \in ids : \A q \in ids \ {p} : Before(seg, vector, p, q)
         IN <<[id |-> best, score |-> Score(seg, vector, best)]>>
                \o Ranked(seg, vector, ids \ {best})

Take(s, n) == IF Len(s) <= n THEN s ELSE SubSeq(s, 1, n)

Segment_search(seg, vector, filter, top, fault) ==
    IF fault # "none" THEN Err(fault)
    ELSE Ok(Take(Ranked(seg, vector,
                        {p \in Segment_points(seg) : FilterAccepts(filter, p)}), top))

(* ------------------------------ locks ---------------------------------- *)
(* One lock acquisition: which lock, in which mode, and the guards the
   caller still holds at that moment. *)
Acq(lock, mode, held) == [lock |-> lock, mode |-> mode, held |-> held]
Guard(lock, mode) == <<lock, mode>>

(* ---------------------------- ProxySegment ----------------------------- *)
(* two sibling proxies of one batch and the optimizer that rebuilds it *)
Threads == {"proxy_a", "proxy_b", "optimizer"}

IdleMover == [pc |-> "idle", op_num |-> 0, point_id |-> 0, vector |-> Ok(0),
              payload |-> Ok(EmptyPayload), res |-> Ok(FALSE)]
IdleObserver == [pc |-> "idle", reader |-> "none", point_id |-> 0,
                 in_deleted |-> FALSE, seen |-> Ok(FALSE)]

VARIABLES
    write_segment,      \* ProxySegment.write_segment
    wrapped_segment,    \* ProxySegment.wrapped_segment
    deleted_points,     \* ProxySegment.deleted_points
    deleted_indexes,    \* ProxySegment.deleted_indexes
    created_indexes,    \* ProxySegment.created_indexes
    ret,                \* what the last mutator (or drop_data) returned
    direct,             \* an appendable copy of the wrapped segment (SpecDirect)
    touched,            \* per point, the operations delivered on it (SpecReplay)
    last_index_op,      \* per key, the index operation applied last (SpecIndex)
    inputs,             \* the arguments of build_optimizers (SpecOpt)
    optimizers,         \* the list build_optimizers returned (SpecOpt)
    cycle,              \* the driver's last cycle (SpecOpt)
    sibling_wrapped,    \* the segment wrapped by a sibling proxy (SpecShared)
    thr_trace,          \* per thread, the lock requests of its running operation
    thr_pos,            \* per thread, how many of them were granted (SpecThreads)
    mover,              \* a thread inside move_point (SpecMove)
    observer            \* a thread inside vector / payload / has_point (SpecMove)

proxy_vars == <<write_segment, wrapped_segment, deleted_points, deleted_indexes,
                created_indexes>>
optimizer_vars == <<inputs, optimizers, cycle>>
thread_vars == <<thr_trace, thr_pos, mover, observer>>
shared_vars == <<sibling_wrapped, thread_vars>>
vars == <<write_segment, wrapped_segment, deleted_points, deleted_indexes,
          created_indexes, ret, direct, touched, last_index_op,
          inputs, optimizers, cycle, sibling_wrapped,
          thr_trace, thr_pos, mover, observer>>

ProxySegment_new(segment, write, deleted, created_idx, deleted_idx) ==
    [write_segment |-> write, wrapped_segment |-> segment,
     deleted_points |-> deleted, created_indexes |-> created_idx,
     deleted_indexes |-> deleted_idx]

Self ==
    [write_segment |-> write_segment, wrapped_segment |-> wrapped_segment,
     deleted_points |-> deleted_points, created_indexes |-> created_indexes,
     deleted_indexes |-> deleted_indexes]

Out(self, res, lks) == [self |-> self, res |-> res, locks |-> lks]

version_locks ==
    <<Acq("wrapped_segment", "read", {}),
      Acq("write_segment", "read", {Guard("wrapped_segment", "read")})>>

version(self) ==
    Max(Segment_version(self.wrapped_segment), Segment_version(self.write_segment))

move_point_no_tombstone(self, op_num, point_id, flt) ==
    LET rd == <<Acq("wrapped_segment", "read", {})>>
        wr == rd \o <<Acq("write_segment", "write", {})>>
        vector == Segment_vector(self.wrapped_segment, point_id, FaultAt(flt, "wrapped_vector"))
        payload == Segment_payload(self.wrapped_segment, point_id, FaultAt(flt, "wrapped_payload"))
        u == Segment_upsert_point(self.write_segment, op_num, point_id, vector.val,
                                  FaultAt(flt, "move_upsert"))
        s == Segment_set_full_payload(u.seg, op_num, point_id, payload.val,
                                      FaultAt(flt, "move_payload"))
    IN  IF IsErr(vector) THEN Out(self, vector, rd)
        ELSE IF IsErr(payload) THEN Out(self, payload, rd)
        ELSE IF IsErr(u.res) THEN Out(self, u.res, wr)
        ELSE IF IsErr(s.res) THEN Out([self EXCEPT !.write_segment = u.seg], s.res, wr)
        ELSE Out([self EXCEPT !.write_segment = s.seg], Ok(TRUE), wr)

move_point_bumped_payload(self, op_num, point_id, flt) ==
    LET rd == <<Acq("wrapped_segment", "read", {})>>
        wr == rd \o <<Acq("deleted_points", "write", {}),
                      Acq("write_segment", "write", {Guard("deleted_points", "write")})>>
        vector == Segment_vector(self.wrapped_segment, point_id, FaultAt(flt, "wrapped_vector"))
        payload == Segment_payload(self.wrapped_segment, point_id, FaultAt(flt, "wrapped_payload"))
        moved == [self EXCEPT !.deleted_points = @ \cup {point_id}]
        u == Segment_upsert_point(self.write_segment, op_num, point_id, vector.val,
                                  FaultAt(flt, "move_upsert"))
        s == Segment_set_full_payload(u.seg, op_num + 1, point_id, payload.val,
                                      FaultAt(flt, "move_payload"))
    IN  IF IsErr(vector) THEN Out(self, vector, rd)
        ELSE IF IsErr(payload) THEN Out(self, payload, rd)
        ELSE IF IsErr(u.res) THEN Out(moved, u.res, wr)
        ELSE IF IsErr(s.res) THEN Out([moved EXCEPT !.write_segment = u.seg], s.res, wr)
        ELSE Out([moved EXCEPT !.write_segment = s.seg], Ok(TRUE), wr)

move_point_holding_wrapped(self, op_num, point_id, flt) ==
    LET rd == <<Acq("wrapped_segment", "read", {})>>
        wr == rd \o <<Acq("deleted_points", "write", {Guard("wrapped_segment", "read")}),
                      Acq("write_segment", "write", {Guard("wrapped_segment", "read"),
                                                     Guard("deleted_points", "write")})>>
        vector == Segment_vector(self.wrapped_segment, point_id, FaultAt(flt, "wrapped_vector"))
        payload == Segment_payload(self.wrapped_segment, point_id, FaultAt(flt, "wrapped_payload"))
        moved == [self EXCEPT !.deleted_points = @ \cup {point_id}]
        u == Segment_upsert_point(self.write_segment, op_num, point_id, vector.val,
                                  FaultAt(flt, "move_upsert"))
        s == Segment_set_full_payload(u.seg, op_num, point_id, payload.val,
                                      FaultAt(flt, "move_payload"))
    IN  IF IsErr(vector) THEN Out(self, vector, rd)
        ELSE IF IsErr(payload) THEN Out(self, payload, rd)
        ELSE IF IsErr(u.res) THEN Out(moved, u.res, wr)
        ELSE IF IsErr(s.res) THEN Out([moved EXCEPT !.write_segment = u.seg], s.res, wr)
        ELSE Out([moved EXCEPT !.write_segment = s.seg], Ok(TRUE), wr)

move_point(self, op_num, point_id, flt) ==
    LET rd == <<Acq("wrapped_segment", "read", {})>>
        wr == rd \o <<Acq("deleted_points", "write", {}),
                      Acq("write_segment", "write", {Guard("deleted_points", "write")})>>
        vector == Segment_vector(self.wrapped_segment, point_id, FaultAt(flt, "wrapped_vector"))
        payload == Segment_payload(self.wrapped_segment, point_id, FaultAt(flt, "wrapped_payload"))
        moved == [self EXCEPT !.deleted_points = @ \cup {point_id}]
        u == Segment_upsert_point(self.write_segment, op_num, point_id, vector.val,
                                  FaultAt(flt, "move_upsert"))
        s == Segment_set_full_payload(u.seg, op_num, point_id, payload.val,
                                      FaultAt(flt, "move_payload"))
    IN  IF IsErr(vector) THEN Out(self, vector, rd)
        ELSE IF IsErr(payload) THEN Out(self, payload, rd)
        ELSE IF IsErr(u.res) THEN Out(moved, u.res, wr)
        ELSE IF IsErr(s.res) THEN Out([moved EXCEPT !.write_segment = u.seg], s.res, wr)
        ELSE Out([moved EXCEPT !.write_segment = s.seg], Ok(TRUE), wr)

move_if_exists(self, op_num, point_id, flt) ==
    LET lks == <<Acq("wrapped_segment", "read", {}), Acq("deleted_points", "read", {})>>
        wrapped_has_point == Segment_has_point(self.wrapped_segment, point_id)
        already_deleted == point_id \in self.deleted_points
    IN  IF wrapped_has_point /\ ~already_deleted
        THEN LET m == move_point(self, op_num, point_id, flt)
             IN Out(m.self, m.res, lks \o m.locks)
        ELSE Out(self, Ok(FALSE), lks)


gate_then(self, op_num, body) ==
    IF version(self) > op_num THEN Out(self, Ok(FALSE), version_locks)
    ELSE Out(body.self, body.res, version_locks \o body.locks)

(* the mutation itself, on the scratch segment, after move_if_exists *)
apply_after_move(m, a) ==
    IF IsErr(m.res) THEN m
    ELSE Out([m.self EXCEPT !.write_segment = a.seg], a.res,
             m.locks \o <<Acq("write_segment", "write", {})>>)

upsert_point_untombstone(self, op_num, point_id, vector, flt) ==
    LET m == move_if_exists(self, op_num, point_id, flt)
        r == apply_after_move(m,
                 Segment_upsert_point(m.self.write_segment, op_num, point_id, vector,
                                      FaultAt(flt, "apply")))
    IN gate_then(self, op_num,
           IF IsErr(r.res) THEN r
           ELSE Out([r.self EXCEPT !.deleted_points = @ \ {point_id}], r.res, r.locks))

upsert_point(self, op_num, point_id, vector, flt) ==
    LET m == move_if_exists(self, op_num, point_id, flt)
    IN gate_then(self, op_num, apply_after_move(m,
           Segment_upsert_point(m.self.write_segment, op_num, point_id, vector,
                                FaultAt(flt, "apply"))))

delete_point_in_wrapped(self, op_num, point_id, flt) ==
    LET in_wrapped == Segment_has_point(self.wrapped_segment, point_id)
        w == Segment_delete_point(self.wrapped_segment, op_num, point_id, "none")
        marked == IF in_wrapped
                  THEN [self EXCEPT !.wrapped_segment = w.seg]
                  ELSE self
        was_deleted == in_wrapped
        lks == <<Acq("wrapped_segment", "read", {})>>
               \o (IF in_wrapped THEN <<Acq("wrapped_segment", "write", {})>> ELSE <<>>)
               \o <<Acq("write_segment", "write", {})>>
        d == Segment_delete_point(self.write_segment, op_num, point_id, FaultAt(flt, "apply"))
    IN gate_then(self, op_num,
           IF IsErr(d.res) THEN Out(marked, d.res, lks)
           ELSE Out([marked EXCEPT !.write_segment = d.seg],
                    Ok(was_deleted \/ d.res.val), lks))

delete_point(self, op_num, point_id, flt) ==
    LET in_wrapped == Segment_has_point(self.wrapped_segment, point_id)
        marked == IF in_wrapped
                  THEN [self EXCEPT !.deleted_points = @ \cup {point_id}]
                  ELSE self
        was_deleted == in_wrapped
        lks == <<Acq("wrapped_segment", "read", {})>>
               \o (IF in_wrapped THEN <<Acq("deleted_points", "write", {})>> ELSE <<>>)
               \o <<Acq("write_segment", "write", {})>>
        d == Segment_delete_point(self.write_segment, op_num, point_id, FaultAt(flt, "apply"))
    IN gate_then(self, op_num,
           IF IsErr(d.res) THEN Out(marked, d.res, lks)
           ELSE Out([marked EXCEPT !.write_segment = d.seg],
                    Ok(was_deleted \/ d.res.val), lks))

set_full_payload(self, op_num, point_id, full_payload, flt) ==
    LET m == move_if_exists(self, op_num, point_id, flt)
    IN gate_then(self, op_num, apply_after_move(m,
           Segment_set_full_payload(m.self.write_segment, op_num, point_id, full_payload,
                                    FaultAt(flt, "apply"))))

set_payload(self, op_num, point_id, key, value, flt) ==
    LET m == move_if_exists(self, op_num, point_id, flt)
    IN gate_then(self, op_num, apply_after_move(m,
           Segment_set_payload(m.self.write_segment, op_num, point_id, key, value,
                               FaultAt(flt, "apply"))))

delete_payload(self, op_num, point_id, key, flt) ==
    LET m == move_if_exists(self, op_num, point_id, flt)
    IN gate_then(self, op_num, apply_after_move(m,
           Segment_delete_payload(m.self.write_segment, op_num, point_id, key,
                                  FaultAt(flt, "apply"))))

clear_payload(self, op_num, point_id, flt) ==
    LET m == move_if_exists(self, op_num, point_id, flt)
    IN gate_then(self, op_num, apply_after_move(m,
           Segment_clear_payload(m.self.write_segment, op_num, point_id,
                                 FaultAt(flt, "apply"))))

index_locks(first, second) ==
    <<Acq(first, "write", {}), Acq(second, "write", {}), Acq("write_segment", "write", {})>>

delete_field_index(self, op_num, key, flt) ==
    LET sets == [self EXCEPT !.deleted_indexes = @ \cup {key},
                             !.created_indexes = @ \ {key}]
        d == Segment_delete_field_index(self.write_segment, op_num, key, FaultAt(flt, "apply"))
    IN gate_then(self, op_num,
           Out([sets EXCEPT !.write_segment = d.seg], d.res,
               index_locks("deleted_indexes", "created_indexes")))

create_field_index(self, op_num, key, flt) ==
    LET sets == [self EXCEPT !.created_indexes = @ \cup {key},
                             !.deleted_indexes = @ \ {key}]
        c == Segment_create_field_index(self.write_segment, op_num, key, FaultAt(flt, "apply"))
    IN gate_then(self, op_num,
           Out([sets EXCEPT !.write_segment = c.seg], c.res,
               index_locks("created_indexes", "deleted_indexes")))


(* A reader of one point: deleted_points is consulted (and released) first. *)
redirect_locks(self, point_id) ==
    <<Acq("deleted_points", "read", {}),
      Acq(IF point_id \in self.deleted_points THEN "write_segment" ELSE "wrapped_segment",
          "read", {})>>

vector(self, point_id) ==
    IF point_id \in self.deleted_points
    THEN Segment_vector(self.write_segment, point_id, "none")
    ELSE Segment_vector(self.wrapped_segment, point_id, "none")

payload(self, point_id) ==
    IF point_id \in self.deleted_points
    THEN Segment_payload(self.write_segment, point_id, "none")
    ELSE Segment_payload(self.wrapped_segment, point_id, "none")

has_point(self, point_id) ==
    IF point_id \in self.deleted_points
    THEN Segment_has_point(self.write_segment, point_id)
    ELSE Segment_has_point(self.wrapped_segment, point_id)

vectors_count_locks ==
    <<Acq("wrapped_segment", "read", {}), Acq("deleted_points", "read", {}),
      Acq("write_segment", "read", {})>>

(* usize: the model keeps UsizeBits of its 64 bits; the counts stay far
   below either *)
UsizeBits == 16
Usize(x) == x % (2 ^ UsizeBits)

(* count += wrapped; count -= |deleted_points|; count += write: the value a
   build without overflow checks returns *)
vectors_count(self) ==
    Usize(Usize(Usize(0 + Segment_vectors_count(self.wrapped_segment))
                - Cardinality(self.deleted_points))
          + Segment_vectors_count(self.write_segment))

(* `count -= len` below zero: a build with overflow checks panics, one
   without wraps around *)
vectors_count_outcomes(self) ==
    IF Segment_vectors_count(self.wrapped_segment) < Cardinality(self.deleted_points)
    THEN {"panic: attempt to subtract with overflow", vectors_count(self)}
    ELSE {vectors_count(self)}

deleted_count(self) == Segment_deleted_count(self.write_segment)

segment_type(self) == "Special"

info(self) ==
    LET wrapped_info == Segment_info(self.wrapped_segment)
        write_info == Segment_info(self.write_segment)
    IN [segment_type |-> "Special",
        num_vectors |-> vectors_count(self),
        num_deleted_vectors |-> write_info.num_deleted_vectors,
        is_appendable |-> FALSE]

config(self) == Segment_config(self.wrapped_segment)

is_appendable(self) == TRUE

flush(self) == Ok(Segment_version(self.wrapped_segment))

drop_data(self, flt) ==
    LET d == Segment_drop_data(self.wrapped_segment, FaultAt(flt, "drop_data"))
    IN Out([self EXCEPT !.wrapped_segment = d.seg],
           IF IsErr(d.res) THEN d.res ELSE Ok(TRUE),
           <<Acq("wrapped_segment", "write", {})>>)

RECURSIVE SetToSeq(_)
SetToSeq(S) ==
    IF S = {} THEN <<>>
    ELSE LET x == CHOOSE y \in S : TRUE IN <<x>> \o SetToSeq(S \ {x})

get_indexed_fields_locks(self) ==
    <<Acq("wrapped_segment", "read", {}), Acq("created_indexes", "read", {})>>
    \o [i \in 1..(Cardinality(Segment_get_indexed_fields(self.wrapped_segment))
                  + Cardinality(self.created_indexes)) |->
            Acq("deleted_indexes", "read", {Guard("created_indexes", "read")})]

get_indexed_fields(self) ==
    LET indexed_fields == SetToSeq(Segment_get_indexed_fields(self.wrapped_segment))
    IN SelectSeq(indexed_fields \o SetToSeq(self.created_indexes),
                 LAMBDA x : x \notin self.deleted_indexes)

(* the sub-search on wrapped: with must_not HasId(deleted_points) added to
   the filter unless deleted_points is empty *)
wrapped_sub_search(self, query_vector, filter, top, wrapped_fault) ==
    LET do_update_filter == self.deleted_points # {}
        wrapper_condition == HasId(self.deleted_points)
        wrapped_filter ==
            IF ~filter.some THEN Some(Filter_new_must_not(wrapper_condition))
            ELSE LET must_not == filter.v.must_not
                     new_must_not ==
                         IF ~must_not.some THEN Some(<<wrapper_condition>>)
                         ELSE Some(Append(must_not.v, wrapper_condition))
                 IN Some([filter.v EXCEPT !.must_not = new_must_not])
    IN  IF do_update_filter
        THEN Segment_search(self.wrapped_segment, query_vector, wrapped_filter, top,
                            wrapped_fault)
        ELSE Segment_search(self.wrapped_segment, query_vector, filter, top,
                            wrapped_fault)

search(self, query_vector, filter, top, wrapped_fault, write_fault) ==
    LET wrapped_result == wrapped_sub_search(self, query_vector, filter, top,
                                             wrapped_fault)
        write_result == Segment_search(self.write_segment, query_vector, filter, top,
                                       write_fault)
    IN  IF IsErr(wrapped_result) THEN wrapped_result
        ELSE IF IsErr(write_result) THEN write_result
        ELSE Ok(wrapped_result.val \o write_result.val)

search_locks ==
    <<Acq("deleted_points", "read", {}),
      Acq("wrapped_segment", "read", {Guard("deleted_points", "read")}),
      Acq("write_segment", "read", {Guard("deleted_points", "read")})>>


(* -------------------------- build_optimizers --------------------------- *)
Path_join(path, name) == Append(path, name)

IndexingOptimizer_new(thresholds, segments_path, temp_path, segment_config) ==
    [kind |-> "Indexing", thresholds_config |-> thresholds,
     segments_path |-> segments_path, collection_temp_dir |-> temp_path,
     config |-> segment_config]

MergeOptimizer_new(max_segments, thresholds, segments_path, temp_path, segment_config) ==
    [kind |-> "Merge", max_segments |-> max_segments, thresholds_config |-> thresholds,
     segments_path |-> segments_path, collection_temp_dir |-> temp_path,
     config |-> segment_config]

VacuumOptimizer_new(deleted_threshold, min_vectors_number, thresholds, segments_path, temp_path, segment_config) ==
    [kind |-> "Vacuum", deleted_threshold |-> deleted_threshold,
     min_vectors_number |-> min_vectors_number, thresholds_config |-> thresholds,
     segments_path |-> segments_path, collection_temp_dir |-> temp_path,
     config |-> segment_config]

build_optimizers_merge_last(collection_path, segment_config, optimizers_config) ==
    LET segments_path == Path_join(collection_path, "segments")
        temp_segments_path == Path_join(collection_path, "temp_segments")
        threshold_config ==
            [memmap_threshold |-> optimizers_config.memmap_threshold,
             indexing_threshold |-> optimizers_config.indexing_threshold,
             payload_indexing_threshold |-> optimizers_config.payload_indexing_threshold]
    IN <<IndexingOptimizer_new(threshold_config, segments_path, temp_segments_path,
                               segment_config),
         VacuumOptimizer_new(optimizers_config.deleted_threshold,
                             optimizers_config.vacuum_min_vector_number,
                             threshold_config, segments_path, temp_segments_path,
                             segment_config),
         MergeOptimizer_new(optimizers_config.max_segment_number, threshold_config,
                            segments_path, temp_segments_path, segment_config)>>

build_optimizers(collection_path, segment_config, optimizers_config) ==
    LET segments_path == Path_join(collection_path, "segments")
        temp_segments_path == Path_join(collection_path, "temp_segments")
        threshold_config ==
            [memmap_threshold |-> optimizers_config.memmap_threshold,
             indexing_threshold |-> optimizers_config.indexing_threshold,
             payload_indexing_threshold |-> optimizers_config.payload_indexing_threshold]
    IN <<IndexingOptimizer_new(threshold_config, segments_path, temp_segments_path,
                               segment_config),
         MergeOptimizer_new(optimizers_config.max_segment_number, threshold_config,
                            segments_path, temp_segments_path, segment_config),
         VacuumOptimizer_new(optimizers_config.deleted_threshold,
                             optimizers_config.vacuum_min_vector_number,
                             threshold_config, segments_path, temp_segments_path,
                             segment_config)>>

(* The update handler's cycle (section 4.G): the optimizers are asked in list
   order and the first one that reports candidates runs the one rebuild. *)
UpdateHandler_cycle(optimizer_list, with_candidates) ==
    LET hits == {i \in DOMAIN optimizer_list : optimizer_list[i].kind \in with_candidates}
    IN IF hits = {} THEN "none"
       ELSE optimizer_list[CHOOSE i \in hits : \A j \in hits : i <= j].kind

(* --------------------------- SegmentEntry calls ------------------------ *)
MCall(name, op_num, point_id, key, vec, pl, flt) ==
    [name |-> name, op_num |-> op_num, point_id |-> point_id, key |-> key,
     vec |-> vec, payload |-> pl, flt |-> flt]

PointFaults == {f \in Faults : f.at \in {"none", "wrapped_vector", "wrapped_payload",
                                         "move_upsert", "move_payload", "apply"}}
ApplyFaults == {f \in Faults : f.at \in {"none", "apply"}}
DropFaults == {f \in Faults : f.at \in {"none", "drop_data"}}
SamplePayloads == {EmptyPayload, [EmptyPayload EXCEPT !["size"] = "red"]}

UpsertCalls ==
    {MCall("upsert_point", o, p, "", v, EmptyPayload, f) :
        o \in SeqNumbers, p \in PointIds, v \in Vectors, f \in PointFaults}
DeleteCalls ==
    {MCall("delete_point", o, p, "", 0, EmptyPayload, f) :
        o \in SeqNumbers, p \in PointIds, f \in ApplyFaults}
SetFullPayloadCalls ==
    {MCall("set_full_payload", o, p, "", 0, pl, f) :
        o \in SeqNumbers, p \in PointIds, pl \in SamplePayloads, f \in PointFaults}
SetPayloadCalls ==
    {MCall("set_payload", o, p, k, 0, [EmptyPayload EXCEPT ![k] = x], f) :
        o \in SeqNumbers, p \in PointIds, k \in PayloadKeys, x \in PayloadValues,
        f \in PointFaults}
DeletePayloadCalls ==
    {MCall("delete_payload", o, p, k, 0, EmptyPayload, f) :
        o \in SeqNumbers, p \in PointIds, k \in PayloadKeys, f \in PointFaults}
ClearPayloadCalls ==
    {MCall("clear_payload", o, p, "", 0, EmptyPayload, f) :
        o \in SeqNumbers, p \in PointIds, f \in PointFaults}
CreateIndexCalls ==
    {MCall("create_field_index", o, 0, k, 0, EmptyPayload, f) :
        o \in SeqNumbers, k \in PayloadKeys, f \in ApplyFaults}
DeleteIndexCalls ==
    {MCall("delete_field_index", o, 0, k, 0, EmptyPayload, f) :
        o \in SeqNumbers, k \in PayloadKeys, f \in ApplyFaults}

PointMutatorCalls ==
    UpsertCalls \cup DeleteCalls \cup SetFullPayloadCalls \cup SetPayloadCalls
        \cup DeletePayloadCalls \cup ClearPayloadCalls
IndexMutatorCalls == CreateIndexCalls \cup DeleteIndexCalls
MutatorCalls == PointMutatorCalls \cup IndexMutatorCalls

(* dispatch of a SegmentEntry mutator on the proxy *)
Invoke(self, c) ==
    CASE c.name = "upsert_point" ->
            upsert_point(self, c.op_num, c.point_id, c.vec, c.flt)
      [] c.name = "delete_point" ->
            delete_point(self, c.op_num, c.point_id, c.flt)
      [] c.name = "set_full_payload" ->
            set_full_payload(self, c.op_num, c.point_id, c.payload, c.flt)
      [] c.name = "set_payload" ->
            set_payload(self, c.op_num, c.point_id, c.key, c.payload[c.key], c.flt)
      [] c.name = "delete_payload" ->
            delete_payload(self, c.op_num, c.point_id, c.key, c.flt)
      [] c.name = "clear_payload" ->
            clear_payload(self, c.op_num, c.point_id, c.flt)
      [] c.name = "create_field_index" ->
            create_field_index(self, c.op_num, c.key, c.flt)
      [] c.name = "delete_field_index" ->
            delete_field_index(self, c.op_num, c.key, c.flt)

(* the same call on a plain appendable segment *)
Segment_invoke(seg, c) ==
    CASE c.name = "upsert_point" ->
            Segment_upsert_point(seg, c.op_num, c.point_id, c.vec, "none")
      [] c.name = "delete_point" ->
            Segment_delete_point(seg, c.op_num, c.point_id, "none")
      [] c.name = "set_full_payload" ->
            Segment_set_full_payload(seg, c.op_num, c.point_id, c.payload, "none")
      [] c.name = "set_payload" ->
            Segment_set_payload(seg, c.op_num, c.point_id, c.key, c.payload[c.key], "none")
      [] c.name = "delete_payload" ->
            Segment_delete_payload(seg, c.op_num, c.point_id, c.key, "none")
      [] c.name = "clear_payload" ->
            Segment_clear_payload(seg, c.op_num, c.point_id, "none")
      [] c.name = "create_field_index" ->
            Segment_create_field_index(seg, c.op_num, c.key, "none")
      [] c.name = "delete_field_index" ->
            Segment_delete_field_index(seg, c.op_num, c.key, "none")


(* ------------------------------ actions -------------------------------- *)
(* A handler's outcome becomes the next state.  A fault that the call never
   reaches is no fault, so only the faults that are hit are drawn. *)
Do(r, flt) ==
    /\ flt = NoFault \/ (IsErr(r.res) /\ r.res.val = flt.err)
    /\ write_segment' = r.self.write_segment
    /\ wrapped_segment' = r.self.wrapped_segment
    /\ deleted_points' = r.self.deleted_points
    /\ deleted_indexes' = r.self.deleted_indexes
    /\ created_indexes' = r.self.created_indexes
    /\ ret' = r.res

aux_vars == <<direct, touched, last_index_op, inputs, optimizers, cycle, shared_vars>>

Mutate(c) == Do(Invoke(Self, c), c.flt)

(* A reader (&self) returns a value and leaves every field alone. *)
Returns(value) == value = value

(* Spec calls the index mutators on the key the wrapped segment indexes;
   SpecIndex calls them on every key. *)
IndexedKeys == {"color"}

UpsertPoint == \E c \in UpsertCalls : Mutate(c) /\ UNCHANGED aux_vars
DeletePoint == \E c \in DeleteCalls : Mutate(c) /\ UNCHANGED aux_vars
SetFullPayload == \E c \in SetFullPayloadCalls : Mutate(c) /\ UNCHANGED aux_vars
SetPayload == \E c \in SetPayloadCalls : Mutate(c) /\ UNCHANGED aux_vars
DeletePayload == \E c \in DeletePayloadCalls : Mutate(c) /\ UNCHANGED aux_vars
ClearPayload == \E c \in ClearPayloadCalls : Mutate(c) /\ UNCHANGED aux_vars
CreateFieldIndex ==
    \E c \in {x \in CreateIndexCalls : x.key \in IndexedKeys} :
        Mutate(c) /\ UNCHANGED aux_vars
DeleteFieldIndex ==
    \E c \in {x \in DeleteIndexCalls : x.key \in IndexedKeys} :
        Mutate(c) /\ UNCHANGED aux_vars
DropData ==
    \E flt \in DropFaults :
        Do(drop_data(Self, flt), flt) /\ UNCHANGED aux_vars

SampleFilters ==
    {None, Some(Filter_new_must_not(HasId({1}))), Some(Filter_new_must(HasId({1})))}
SearchFaults == {<<"none", "none">>, <<"ServiceError", "none">>, <<"none", "ServiceError">>}

Search ==
    \E query_vector \in Vectors, filter \in SampleFilters, f \in SearchFaults :
        Returns(search(Self, query_vector, filter, 10, f[1], f[2])) /\ UNCHANGED vars

Version == Returns(version(Self)) /\ UNCHANGED vars
Vector == \E point_id \in PointIds : Returns(vector(Self, point_id)) /\ UNCHANGED vars
Payload == \E point_id \in PointIds : Returns(payload(Self, point_id)) /\ UNCHANGED vars
HasPoint == \E point_id \in PointIds : Returns(has_point(Self, point_id)) /\ UNCHANGED vars
VectorsCount == Returns(vectors_count(Self)) /\ UNCHANGED vars
DeletedCount == Returns(deleted_count(Self)) /\ UNCHANGED vars
SegmentType == Returns(segment_type(Self)) /\ UNCHANGED vars
Info == Returns(info(Self)) /\ UNCHANGED vars
Config == Returns(config(Self)) /\ UNCHANGED vars
IsAppendable == Returns(is_appendable(Self)) /\ UNCHANGED vars
Flush == Returns(flush(Self)) /\ UNCHANGED vars
GetIndexedFields == Returns(get_indexed_fields(Self)) /\ UNCHANGED vars

(* ------------------------------- Init ---------------------------------- *)
(* A frozen original: the points 1..n with vector 1 and a full payload, with
   an index on "color". *)
build_segment(n, ver) ==
    Segment_new([p \in PointIds |-> IF p <= n THEN LivePoint(1, FullPayload) ELSE NoPoint],
                ver, {"color"}, "wrapped_config")

(* the original behind the sibling proxy of the same batch: point 2 *)
sibling_segment ==
    Segment_new([p \in PointIds |-> IF p = 2 THEN LivePoint(1, FullPayload) ELSE NoPoint],
                1, {"color"}, "wrapped_config")

empty_segment == Segment_new([p \in PointIds |-> NoPoint], 0, {}, "scratch_config")

OptimizersConfigs ==
    [deleted_threshold : {20, 50}, vacuum_min_vector_number : {100, 500},
     max_segment_number : {2, 5}, memmap_threshold : {1000, 2000},
     indexing_threshold : {3000, 4000}, payload_indexing_threshold : {5000, 6000},
     flush_interval_sec : {5}]

BuildInputs ==
    [collection_path : {<<"storage", "a">>, <<"storage", "b">>},
     segment_config : {"wrapped_config"},
     optimizers_config : OptimizersConfigs]

InitProxy(w) ==
    LET proxy == ProxySegment_new(w, empty_segment, {}, {}, {})
    IN /\ write_segment = proxy.write_segment
       /\ wrapped_segment = proxy.wrapped_segment
       /\ deleted_points = proxy.deleted_points
       /\ deleted_indexes = proxy.deleted_indexes
       /\ created_indexes = proxy.created_indexes
       /\ ret = Ok(TRUE)
       /\ direct = w
       /\ sibling_wrapped = sibling_segment
       /\ thr_trace = [t \in Threads |-> <<>>]
       /\ thr_pos = [t \in Threads |-> 0]
       /\ mover = IdleMover
       /\ observer = IdleObserver
       /\ touched = [p \in PointIds |-> {}]
       /\ last_index_op = [k \in PayloadKeys |-> "none"]

InitOptimizers(in) ==
    /\ inputs = in
    /\ optimizers = <<>>
    /\ cycle = [with_candidates |-> {}, ran |-> "none"]

DefaultInputs == CHOOSE in \in BuildInputs : TRUE

Init ==
    /\ \E n \in PointIds : InitProxy(build_segment(n, 1))
    /\ InitOptimizers(DefaultInputs)

Next ==
    \/ UpsertPoint
    \/ DeletePoint
    \/ SetFullPayload
    \/ SetPayload
    \/ DeletePayload
    \/ ClearPayload
    \/ CreateFieldIndex
    \/ DeleteFieldIndex
    \/ DropData
    \/ Search
    \/ Version
    \/ Vector
    \/ Payload
    \/ HasPoint
    \/ VectorsCount
    \/ DeletedCount
    \/ SegmentType
    \/ Info
    \/ Config
    \/ IsAppendable
    \/ Flush
    \/ GetIndexedFields

Spec == Init /\ [][Next]_vars


(* ------------------- the optimizers of a collection -------------------- *)
Kinds == {"Indexing", "Merge", "Vacuum"}

BuildOptimizers ==
    /\ optimizers = <<>>
    /\ optimizers' = build_optimizers(inputs.collection_path, inputs.segment_config,
                                      inputs.optimizers_config)
    /\ UNCHANGED <<proxy_vars, ret, direct, touched, last_index_op, inputs, cycle, shared_vars>>

Cycle ==
    /\ optimizers # <<>>
    /\ \E with_candidates \in SUBSET Kinds :
           cycle' = [with_candidates |-> with_candidates,
                     ran |-> UpdateHandler_cycle(optimizers, with_candidates)]
    /\ UNCHANGED <<proxy_vars, ret, direct, touched, last_index_op, inputs,
                   optimizers, shared_vars>>

InitOpt ==
    /\ InitProxy(build_segment(1, 1))
    /\ \E in \in BuildInputs : InitOptimizers(in)

NextOpt == BuildOptimizers \/ Cycle

SpecOpt == InitOpt /\ [][NextOpt]_vars

(* --------- the proxy next to an appendable copy of the original -------- *)
(* The same call, with the same op_num, goes to the proxy and to the copy. *)
Both(c) ==
    /\ c.flt = NoFault
    /\ Do(Invoke(Self, c), NoFault)
    /\ direct' = Segment_invoke(direct, c).seg

BothUpsertPoint ==
    \E c \in UpsertCalls :
        Both(c) /\ UNCHANGED <<touched, last_index_op, inputs, optimizers, cycle, shared_vars>>
BothDeletePoint ==
    \E c \in DeleteCalls :
        Both(c) /\ UNCHANGED <<touched, last_index_op, inputs, optimizers, cycle, shared_vars>>
BothSetFullPayload ==
    \E c \in SetFullPayloadCalls :
        Both(c) /\ UNCHANGED <<touched, last_index_op, inputs, optimizers, cycle, shared_vars>>
BothSetPayload ==
    \E c \in SetPayloadCalls :
        Both(c) /\ UNCHANGED <<touched, last_index_op, inputs, optimizers, cycle, shared_vars>>
BothDeletePayload ==
    \E c \in DeletePayloadCalls :
        Both(c) /\ UNCHANGED <<touched, last_index_op, inputs, optimizers, cycle, shared_vars>>
BothClearPayload ==
    \E c \in ClearPayloadCalls :
        Both(c) /\ UNCHANGED <<touched, last_index_op, inputs, optimizers, cycle, shared_vars>>
BothCreateFieldIndex ==
    \E c \in {x \in CreateIndexCalls : x.key \in IndexedKeys} :
        Both(c) /\ UNCHANGED <<touched, last_index_op, inputs, optimizers, cycle, shared_vars>>
BothDeleteFieldIndex ==
    \E c \in {x \in DeleteIndexCalls : x.key \in IndexedKeys} :
        Both(c) /\ UNCHANGED <<touched, last_index_op, inputs, optimizers, cycle, shared_vars>>

NextDirect ==
    \/ BothUpsertPoint
    \/ BothDeletePoint
    \/ BothSetFullPayload
    \/ BothSetPayload
    \/ BothDeletePayload
    \/ BothClearPayload
    \/ BothCreateFieldIndex
    \/ BothDeleteFieldIndex

SpecDirect == Init /\ [][NextDirect]_vars

(* ------------- operations delivered in any order (replay) -------------- *)
MaxReplay == 3
ReplayNumbers == 1..MaxReplay

(* the op_nums already delivered *)
Delivered == UNION {{t.op_num : t \in touched[p]} : p \in PointIds}

(* An operation with an op_num not delivered so far arrives. *)
Deliver(c, kind) ==
    /\ c.flt = NoFault
    /\ c.op_num \in ReplayNumbers \ Delivered
    /\ Do(Invoke(Self, c), NoFault)
    /\ touched' = [touched EXCEPT ![c.point_id] =
                       @ \cup {[op_num |-> c.op_num, kind |-> kind, vec |-> c.vec]}]

ReplayUpsertCalls ==
    {MCall("upsert_point", o, p, "", v, EmptyPayload, NoFault) :
        o \in ReplayNumbers, p \in PointIds, v \in Vectors}
ReplayDeleteCalls ==
    {MCall("delete_point", o, p, "", 0, EmptyPayload, NoFault) :
        o \in ReplayNumbers, p \in PointIds}

DeliverUpsert ==
    \E c \in ReplayUpsertCalls :
        Deliver(c, "upsert")
            /\ UNCHANGED <<direct, last_index_op, inputs, optimizers, cycle, shared_vars>>
DeliverDelete ==
    \E c \in ReplayDeleteCalls :
        Deliver(c, "delete")
            /\ UNCHANGED <<direct, last_index_op, inputs, optimizers, cycle, shared_vars>>

InitReplay ==
    /\ \E n \in PointIds : InitProxy(build_segment(n, 0))
    /\ InitOptimizers(DefaultInputs)

NextReplay == DeliverUpsert \/ DeliverDelete

SpecReplay == InitReplay /\ [][NextReplay]_vars

(* ------------------- the index mutators on every key ------------------- *)
IndexStep(c, kind) ==
    /\ Do(Invoke(Self, c), c.flt)
    /\ last_index_op' = IF ret' = Ok(TRUE)
                        THEN [last_index_op EXCEPT ![c.key] = kind]
                        ELSE last_index_op

IndexCreate ==
    \E c \in CreateIndexCalls :
        IndexStep(c, "create")
            /\ UNCHANGED <<direct, touched, inputs, optimizers, cycle, shared_vars>>
IndexDelete ==
    \E c \in DeleteIndexCalls :
        IndexStep(c, "delete")
            /\ UNCHANGED <<direct, touched, inputs, optimizers, cycle, shared_vars>>

NextIndex == IndexCreate \/ IndexDelete \/ GetIndexedFields

SpecIndex == Init /\ [][NextIndex]_vars


(* ---- two proxies of one batch: one scratch segment, one tombstone set ---- *)
(* the sibling: its own original, the same write_segment and deleted_points *)
Sibling == [Self EXCEPT !.wrapped_segment = sibling_wrapped]

OwnPoints == {1}
SiblingPoints == {2}

(* routing sends the mutators of point 1 to this proxy *)
OwnMutator ==
    \E c \in {x \in PointMutatorCalls : x.point_id \in OwnPoints} :
        Mutate(c) /\ UNCHANGED aux_vars

(* and those of point 2 to the sibling *)
SiblingMutator ==
    \E c \in {x \in PointMutatorCalls : x.point_id \in SiblingPoints} :
        LET r == Invoke(Sibling, c)
        IN /\ c.flt = NoFault \/ (IsErr(r.res) /\ r.res.val = c.flt.err)
           /\ write_segment' = r.self.write_segment
           /\ deleted_points' = r.self.deleted_points
           /\ sibling_wrapped' = r.self.wrapped_segment
           /\ ret' = r.res
           /\ UNCHANGED <<wrapped_segment, deleted_indexes, created_indexes, direct,
                          touched, last_index_op, inputs, optimizers, cycle, thread_vars>>

InitShared ==
    /\ InitProxy(build_segment(1, 1))
    /\ InitOptimizers(DefaultInputs)

NextShared == OwnMutator \/ SiblingMutator \/ VectorsCount

SpecShared == InitShared /\ [][NextShared]_vars

(* ---- the threads of one batch, lock request by lock request ---- *)
(* a sibling wraps its own original: its wrapped_segment is another lock *)
LockOf(t, lock) ==
    IF t = "proxy_b" /\ lock = "wrapped_segment" THEN "sibling_wrapped" ELSE lock

Renamed(t, lks) ==
    [i \in DOMAIN lks |->
        Acq(LockOf(t, lks[i].lock), lks[i].mode,
            {Guard(LockOf(t, g[1]), g[2]) : g \in lks[i].held})]

(* catch-up: the scratch write lock, then the snapshot of deleted_points *)
catch_up_locks ==
    <<Acq("write_segment", "write", {}),
      Acq("deleted_points", "read", {Guard("write_segment", "write")})>>

(* the operations a proxy thread can start: mutators, search, the point
   readers, version, vectors_count *)
ProxyTraces(self) ==
    {Invoke(self, c).locks : c \in {x \in PointMutatorCalls : x.flt = NoFault}}
        \cup {version_locks, vectors_count_locks, search_locks}
        \cup {redirect_locks(self, p) : p \in PointIds}

TracesOf(t) ==
    CASE t = "proxy_a" -> ProxyTraces(Self)
      [] t = "proxy_b" -> {Renamed(t, lks) : lks \in ProxyTraces(Sibling)}
      [] t = "optimizer" -> {catch_up_locks}

Running(t) == thr_trace[t] # <<>>
Waiting(t) == Running(t) /\ thr_pos[t] < Len(thr_trace[t])
Request(t) == thr_trace[t][thr_pos[t] + 1]

(* the guards a thread has in hand: those it holds while it waits, or, after
   its last request, those of its last critical section *)
Holds(t) ==
    IF ~Running(t) THEN {}
    ELSE IF Waiting(t) THEN Request(t).held
    ELSE LET last == thr_trace[t][Len(thr_trace[t])]
         IN last.held \cup {Guard(last.lock, last.mode)}

(* parking_lot::RwLock: readers share, a writer excludes *)
Conflicts(req, g) == g[1] = req.lock /\ (g[2] = "write" \/ req.mode = "write")
BlockedBy(t, u) == Waiting(t) /\ u # t /\ \E g \in Holds(u) : Conflicts(Request(t), g)

Start(t) ==
    /\ ~Running(t)
    /\ \E lks \in TracesOf(t) :
           /\ thr_trace' = [thr_trace EXCEPT ![t] = lks]
           /\ thr_pos' = [thr_pos EXCEPT ![t] = 0]

Grant(t) ==
    /\ Waiting(t)
    /\ \A u \in Threads : ~BlockedBy(t, u)
    /\ thr_pos' = [thr_pos EXCEPT ![t] = @ + 1]
    /\ UNCHANGED thr_trace

Return(t) ==
    /\ Running(t) /\ ~Waiting(t)
    /\ thr_trace' = [thr_trace EXCEPT ![t] = <<>>]
    /\ thr_pos' = [thr_pos EXCEPT ![t] = 0]

thread_frame == <<proxy_vars, ret, direct, touched, last_index_op, optimizer_vars,
                  sibling_wrapped, mover, observer>>

StartOperation == \E t \in Threads : Start(t) /\ UNCHANGED thread_frame
GrantLock == \E t \in Threads : Grant(t) /\ UNCHANGED thread_frame
ReturnFromOperation == \E t \in Threads : Return(t) /\ UNCHANGED thread_frame

InitThreads ==
    /\ InitProxy(build_segment(1, 1))
    /\ InitOptimizers(DefaultInputs)

NextThreads == StartOperation \/ GrantLock \/ ReturnFromOperation

SpecThreads == InitThreads /\ [][NextThreads]_vars

(* ---- one move, statement by statement, and a concurrent reader ---- *)
move_frame == <<ret, direct, touched, last_index_op, optimizer_vars, sibling_wrapped,
                thr_trace, thr_pos>>

(* the guards move_point has in hand before each of its statements *)
MoverHolds ==
    CASE mover.pc \in {"idle", "tombstone"} -> {}
      [] mover.pc = "upsert" -> {Guard("deleted_points", "write")}
      [] mover.pc \in {"set_full_payload", "return"} ->
             {Guard("deleted_points", "write"), Guard("write_segment", "write")}

Readers == {"has_point", "vector", "payload"}

(* a mutator has passed its gate and move_if_exists: lines 44-48 read the
   point from wrapped and drop the read guard *)
MoveRead ==
    \E op_num \in SeqNumbers, point_id \in PointIds :
        /\ mover.pc = "idle"
        /\ ~(version(Self) > op_num)
        /\ Segment_has_point(wrapped_segment, point_id)
        /\ point_id \notin deleted_points
        /\ mover' = [pc |-> "tombstone", op_num |-> op_num, point_id |-> point_id,
                     vector |-> Segment_vector(wrapped_segment, point_id, "none"),
                     payload |-> Segment_payload(wrapped_segment, point_id, "none"),
                     res |-> Ok(FALSE)]
        /\ UNCHANGED <<proxy_vars, observer, move_frame>>

(* lines 50-51: deleted_points.write(), insert; the guard stays *)
MoveTombstone ==
    /\ mover.pc = "tombstone"
    /\ deleted_points' = deleted_points \cup {mover.point_id}
    /\ mover' = [mover EXCEPT !.pc = "upsert"]
    /\ UNCHANGED <<write_segment, wrapped_segment, deleted_indexes, created_indexes,
                   observer, move_frame>>

(* lines 53-56: write_segment.write(), upsert_point(..)? *)
MoveUpsert ==
    /\ mover.pc = "upsert"
    /\ LET u == Segment_upsert_point(write_segment, mover.op_num, mover.point_id,
                                     mover.vector.val, "none")
       IN /\ write_segment' = u.seg
          /\ mover' = [mover EXCEPT !.pc = "set_full_payload", !.res = u.res]
    /\ UNCHANGED <<wrapped_segment, deleted_points, deleted_indexes, created_indexes,
                   observer, move_frame>>

(* line 57: set_full_payload(..)? *)
MoveSetFullPayload ==
    /\ mover.pc = "set_full_payload"
    /\ LET f == Segment_set_full_payload(write_segment, mover.op_num, mover.point_id,
                                         mover.payload.val, "none")
       IN /\ write_segment' = f.seg
          /\ mover' = [mover EXCEPT !.pc = "return", !.res = f.res]
    /\ UNCHANGED <<wrapped_segment, deleted_points, deleted_indexes, created_indexes,
                   observer, move_frame>>

(* lines 59-60: Ok(true); both guards are dropped *)
MoveReturn ==
    /\ mover.pc = "return"
    /\ mover' = IdleMover
    /\ UNCHANGED <<proxy_vars, observer, move_frame>>

(* another thread calls vector, payload or has_point *)
ObserveCall ==
    \E reader \in Readers, point_id \in PointIds :
        /\ observer.pc = "idle"
        /\ observer' = [IdleObserver EXCEPT !.pc = "deleted_points",
                                            !.reader = reader, !.point_id = point_id]
        /\ UNCHANGED <<proxy_vars, mover, move_frame>>

(* `if self.deleted_points.read().contains(&point_id)`: the read guard is a
   temporary of the condition *)
ObserveDeleted ==
    /\ observer.pc = "deleted_points"
    /\ Guard("deleted_points", "write") \notin MoverHolds
    /\ observer' = [observer EXCEPT !.pc = "segment",
                                    !.in_deleted = observer.point_id \in deleted_points]
    /\ UNCHANGED <<proxy_vars, mover, move_frame>>

ObservedSegment == IF observer.in_deleted THEN write_segment ELSE wrapped_segment

(* then the read of write or of wrapped *)
ObserveSegment ==
    /\ observer.pc = "segment"
    /\ observer.in_deleted => Guard("write_segment", "write") \notin MoverHolds
    /\ observer' = [observer EXCEPT
           !.pc = "return",
           !.seen = CASE observer.reader = "has_point" ->
                            Ok(Segment_has_point(ObservedSegment, observer.point_id))
                      [] observer.reader = "vector" ->
                            Segment_vector(ObservedSegment, observer.point_id, "none")
                      [] observer.reader = "payload" ->
                            Segment_payload(ObservedSegment, observer.point_id, "none")]
    /\ UNCHANGED <<proxy_vars, mover, move_frame>>

ObserveReturn ==
    /\ observer.pc = "return"
    /\ observer' = IdleObserver
    /\ UNCHANGED <<proxy_vars, mover, move_frame>>

InitMove ==
    /\ InitProxy(build_segment(2, 1))
    /\ InitOptimizers(DefaultInputs)

NextMove ==
    \/ MoveRead
    \/ MoveTombstone
    \/ MoveUpsert
    \/ MoveSetFullPayload
    \/ MoveReturn
    \/ ObserveCall
    \/ ObserveDeleted
    \/ ObserveSegment
    \/ ObserveReturn

SpecMove == InitMove /\ [][NextMove]_vars

(* ------------------------------- claims -------------------------------- *)
(* this step changes the proxy, and returns, as the mutator call c does *)
Stepped(c) ==
    LET r == Invoke(Self, c)
    IN /\ ret' = r.res
       /\ write_segment' = r.self.write_segment
       /\ wrapped_segment' = r.self.wrapped_segment
       /\ deleted_points' = r.self.deleted_points
       /\ deleted_indexes' = r.self.deleted_indexes
       /\ created_indexes' = r.self.created_indexes

ClaimFilters ==
    SampleFilters \cup
    {Some(Filter_new_must_not(HasId({2}))),
     Some(Filter_new_must(HasId({1, 2}))),
     Some([must |-> Some(<<HasId({1, 2})>>), must_not |-> Some(<<HasId({2})>>)])}
ClaimTops == {1, 10}

(* the ids in the output of search, as a sequence *)
SearchOutput(self, query_vector, filter, top) ==
    LET r == search(self, query_vector, filter, top, "none", "none")
    IN [i \in DOMAIN r.val |-> r.val[i].id]

SearchIds(self, query_vector, filter, top) ==
    LET out == SearchOutput(self, query_vector, filter, top)
    IN {out[i] : i \in DOMAIN out}

(* C1: every mutator of the proxy is version-gated: called with
   op_num <= version() it returns Ok(false) and changes nothing (the write
   segment, deleted_points, created_indexes, deleted_indexes, vectors_count);
   called with op_num > version() it applies and version() becomes op_num. *)
C1_VersionGated ==
    [][\A c \in MutatorCalls :
          (c.flt = NoFault /\ Stepped(c)) =>
              IF c.op_num <= version(Self)
              THEN ret' = Ok(FALSE) /\ UNCHANGED proxy_vars
              ELSE ~IsErr(ret') => version(Self)' = c.op_num]_vars

(* C2: proxy transparency: after any sequence of mutators, has_point, vector
   and payload of every point and the version, read through the proxy, equal
   those of an appendable copy of the original that received the same
   mutators with the same op_nums. *)
C2_ProxyTransparency ==
    /\ version(Self) = Segment_version(direct)
    /\ \A p \in PointIds :
          /\ has_point(Self, p) = Segment_has_point(direct, p)
          /\ vector(Self, p) = Segment_vector(direct, p, "none")
          /\ payload(Self, p) = Segment_payload(direct, p, "none")

(* C3: search de-duplication: after any sequence of mutators, for every
   query, filter and top, no PointId appears twice in the output of search:
   the sub-result of wrapped and the sub-result of write share no PointId. *)
C3_SearchDeduplicated ==
    \A query_vector \in Vectors, filter \in ClaimFilters, top \in ClaimTops :
        LET out == SearchOutput(Self, query_vector, filter, top)
        IN \A i, j \in DOMAIN out : i # j => out[i] # out[j]

(* both sub-searches answer: one point was moved to write, another is still
   served by wrapped *)
C3_Witness ==
    /\ deleted_points = {1}
    /\ Segment_has_point(write_segment, 1)
    /\ Segment_has_point(wrapped_segment, 2)
    /\ SearchIds(Self, 1, None, 10) = {1, 2}

(* C4: deleted points are hidden: once delete_point(op, p) has deleted p,
   search returns p for no query vector and no filter. *)
C4_DeletedPointsHidden ==
    [][\A c \in DeleteCalls :
          (Stepped(c) /\ ret' = Ok(TRUE)) =>
              \A query_vector \in Vectors, filter \in ClaimFilters :
                  c.point_id \notin SearchIds(Self, query_vector, filter, 10)']_vars

(* the delivered operation with the highest op_num that touches p *)
Latest(p) == CHOOSE t \in touched[p] : \A u \in touched[p] : u.op_num <= t.op_num

(* C5: order-independent replay: whatever the delivery order of operations
   with distinct op_nums, every point shows the effect of the operation with
   the highest op_num touching it: absent after a delete, stored in the
   scratch segment after an upsert. *)
C5_ReplayOrderIndependent ==
    \A p \in PointIds :
        touched[p] # {} =>
            IF Latest(p).kind = "delete"
            THEN ~has_point(Self, p) /\ ~Segment_has_point(write_segment, p)
            ELSE Segment_has_point(write_segment, p)

Reported == {get_indexed_fields(Self)[i] : i \in DOMAIN get_indexed_fields(Self)}

(* C6: index diff: after any interleaving of create_field_index and
   delete_field_index, get_indexed_fields() is (wrapped.indexed + created)
   minus deleted, created and deleted are disjoint, a key whose last applied
   index operation was create is reported and one whose last applied index
   operation was delete is not. *)
C6_IndexDiff ==
    /\ Reported = (Segment_get_indexed_fields(wrapped_segment) \cup created_indexes)
                      \ deleted_indexes
    /\ created_indexes \cap deleted_indexes = {}
    /\ \A k \in PayloadKeys :
          /\ last_index_op[k] = "create" => k \in Reported
          /\ last_index_op[k] = "delete" => k \notin Reported


WritesWrapped(lks) ==
    \E i \in DOMAIN lks : lks[i].lock = "wrapped_segment" /\ lks[i].mode = "write"

ReaderLocks ==
    {version_locks, vectors_count_locks, search_locks, get_indexed_fields_locks(Self)}
        \cup {redirect_locks(Self, p) : p \in PointIds}

(* no mutator and no reader changes wrapped or takes its write lock *)
WrappedLeftAlone ==
    /\ \A c \in MutatorCalls :
          LET r == Invoke(Self, c)
          IN r.self.wrapped_segment = wrapped_segment /\ ~WritesWrapped(r.locks)
    /\ \A lks \in ReaderLocks : ~WritesWrapped(lks)

(* C7 (as stated): no operation of the proxy, drop_data included, changes
   the wrapped segment or acquires its write lock. *)
C7_WrappedNeverWritten ==
    /\ WrappedLeftAlone
    /\ \A flt \in DropFaults :
          LET d == drop_data(Self, flt)
          IN d.self.wrapped_segment = wrapped_segment /\ ~WritesWrapped(d.locks)

(* C7 (amended): drop_data is the one operation of the proxy that writes
   wrapped: it takes the write lock of wrapped and drops its stored data; no
   mutator, reader, search or flush changes wrapped or acquires its write
   lock. *)
C7_OnlyDropDataWritesWrapped ==
    /\ WrappedLeftAlone
    /\ \A flt \in DropFaults :
          LET d == drop_data(Self, flt)
          IN /\ WritesWrapped(d.locks)
             /\ ~IsErr(d.res) => d.self.wrapped_segment.dropped
             /\ d.self.wrapped_segment.points = wrapped_segment.points
             /\ d.self.wrapped_segment.version = wrapped_segment.version

(* the data of wrapped was dropped through a proxy that had moved a point *)
C7_Witness ==
    /\ ret = Ok(TRUE)
    /\ wrapped_segment.dropped
    /\ deleted_points # {}
    /\ Segment_version(write_segment) > Segment_version(wrapped_segment)

(* C8: a proxy reports segment_type = Special, is_appendable = true and
   config = wrapped.config, and info() agrees with the individual readers
   on segment_type, is_appendable, the number of vectors and the number of
   deleted vectors. *)
C8_InfoAgreesWithReaders ==
    /\ segment_type(Self) = "Special"
    /\ is_appendable(Self) = TRUE
    /\ config(Self) = Segment_config(wrapped_segment)
    /\ info(Self).segment_type = segment_type(Self)
    /\ info(Self).is_appendable = is_appendable(Self)
    /\ info(Self).num_vectors = vectors_count(Self)
    /\ info(Self).num_deleted_vectors = deleted_count(Self)

(* C9: when a mutator returns an error, it is the error that was raised (by
   a read of wrapped or by a call on the write segment, those of move_point
   included), unchanged, and version() is what it was before the call. *)
C9_ErrorKeepsVersion ==
    \A c \in MutatorCalls :
        LET r == Invoke(Self, c)
            unfaulted == Invoke(Self, [c EXCEPT !.flt = NoFault])
        IN IsErr(r.res) =>
               /\ r.res = Err(c.flt.err) \/ r.res = unfaulted.res
               /\ version(r.self) = version(Self)

(* a mutator failed inside move_point, after the point was tombstoned *)
C9_Witness ==
    /\ ret = Err("ServiceError")
    /\ 1 \in deleted_points
    /\ ~Segment_has_point(write_segment, 1)

(* C10: build_optimizers yields the three optimizers Indexing, Merge, Vacuum
   in this order, all with the thresholds of the OptimizersConfig and the
   segments / temp_segments directories under the collection path; a cycle
   that asks them in list order runs Indexing before Merge before Vacuum. *)
C10_OptimizerOrder ==
    optimizers # <<>> =>
        /\ [i \in DOMAIN optimizers |-> optimizers[i].kind]
               = <<"Indexing", "Merge", "Vacuum">>
        /\ \A i \in DOMAIN optimizers :
              /\ optimizers[i].thresholds_config =
                     [memmap_threshold |-> inputs.optimizers_config.memmap_threshold,
                      indexing_threshold |-> inputs.optimizers_config.indexing_threshold,
                      payload_indexing_threshold |->
                          inputs.optimizers_config.payload_indexing_threshold]
              /\ optimizers[i].segments_path = inputs.collection_path \o <<"segments">>
              /\ optimizers[i].collection_temp_dir
                     = inputs.collection_path \o <<"temp_segments">>
        /\ cycle.ran = IF "Indexing" \in cycle.with_candidates THEN "Indexing"
                       ELSE IF "Merge" \in cycle.with_candidates THEN "Merge"
                       ELSE IF "Vacuum" \in cycle.with_candidates THEN "Vacuum"
                       ELSE "none"

(* Merge and Vacuum both report candidates and Merge runs *)
C10_Witness ==
    /\ Len(optimizers) = 3
    /\ cycle.with_candidates = {"Merge", "Vacuum"}
    /\ cycle.ran = "Merge"


TouchCalls ==
    UpsertCalls \cup SetFullPayloadCalls \cup SetPayloadCalls
        \cup DeletePayloadCalls \cup ClearPayloadCalls

(* what the point pt becomes when the mutation of call c is applied to it *)
MutationOnTop(pt, c) ==
    CASE c.name = "upsert_point" -> [pt EXCEPT !.vec = c.vec]
      [] c.name = "set_full_payload" -> [pt EXCEPT !.payload = c.payload]
      [] c.name = "set_payload" -> [pt EXCEPT !.payload[c.key] = c.payload[c.key]]
      [] c.name = "delete_payload" -> [pt EXCEPT !.payload[c.key] = NoValue]
      [] c.name = "clear_payload" -> [pt EXCEPT !.payload = EmptyPayload]

(* C11: touch moves the point: an applied upsert_point, set_full_payload,
   set_payload, delete_payload or clear_payload on a point p that wrapped
   holds and deleted_points does not leaves p in deleted_points and in write,
   with the vector and payload p had in wrapped and the mutation applied on
   top; for any other point nothing is copied. *)
C11_TouchMovesPoint ==
    [][\A c \in TouchCalls :
          (c.flt = NoFault /\ c.op_num > version(Self) /\ Stepped(c) /\ ~IsErr(ret')) =>
              IF Segment_has_point(wrapped_segment, c.point_id)
                     /\ c.point_id \notin deleted_points
              THEN /\ c.point_id \in deleted_points'
                   /\ write_segment'.points[c.point_id]
                          = MutationOnTop(wrapped_segment.points[c.point_id], c)
              ELSE deleted_points' = deleted_points]_vars


(* the reads of p go to the write segment and the wrapped sub-search leaves
   p out *)
RoutedToWrite(self, p) ==
    /\ redirect_locks(self, p)[2].lock = "write_segment"
    /\ has_point(self, p) = Segment_has_point(self.write_segment, p)
    /\ vector(self, p) = Segment_vector(self.write_segment, p, "none")
    /\ payload(self, p) = Segment_payload(self.write_segment, p, "none")
    /\ \A query_vector \in Vectors, filter \in ClaimFilters :
          LET r == wrapped_sub_search(self, query_vector, filter, 10, "none")
          IN \A i \in DOMAIN r.val : r.val[i].id # p

(* C12: tombstones are permanent: no operation removes an element from
   deleted_points, and once p is in deleted_points every later has_point,
   vector and payload of p reads from write and every later search leaves p
   out of the sub-search on wrapped. *)
C12_TombstonesPermanent ==
    /\ [][deleted_points \subseteq deleted_points']_vars
    /\ [](\A p \in deleted_points : RoutedToWrite(Self, p))

(* point 1 was tombstoned by a delete: wrapped still holds it, the proxy no
   longer shows it *)
C12_Witness ==
    /\ 1 \in deleted_points
    /\ Segment_has_point(wrapped_segment, 1)
    /\ ~has_point(Self, 1)
    /\ ret = Ok(TRUE)


(* C13: vectors_count never underflows: in every reachable state, also when
   deleted_points is shared with the sibling proxies of the batch,
   |deleted_points| <= wrapped.vectors_count(), so the subtraction has no
   negative intermediate value and the count is wrapped - deleted + write. *)
C13_VectorsCountNoUnderflow ==
    /\ Cardinality(deleted_points) <= Segment_vectors_count(wrapped_segment)
    /\ vectors_count_outcomes(Self) =
           {Segment_vectors_count(wrapped_segment) - Cardinality(deleted_points)
                + Segment_vectors_count(write_segment)}


(* the lock traces of every mutating operation in the current state *)
MutatorTraces ==
    {Invoke(Self, c).locks : c \in MutatorCalls}
        \cup {drop_data(Self, flt).locks : flt \in DropFaults}
        \cup {version_locks}

WaitsForWriteHolding(lks, guard) ==
    \E i \in DOMAIN lks :
        /\ lks[i].lock = "write_segment"
        /\ lks[i].mode = "write"
        /\ guard \in lks[i].held

(* C14: in every proxy operation the read lock on wrapped is released before
   the write lock on the scratch write segment is requested: no operation
   (move_point, move_if_exists, delete_point, the version gate, any mutator)
   waits for write_segment's write lock while holding a read lock on
   wrapped_segment. *)
C14_WrappedReadReleased ==
    \A lks \in MutatorTraces : ~WaitsForWriteHolding(lks, Guard("wrapped_segment", "read"))

(* a point has been moved, and an operation that reads wrapped and then
   writes write is still possible *)
C14_Witness ==
    /\ 1 \in deleted_points
    /\ Segment_has_point(write_segment, 1)
    /\ \E lks \in MutatorTraces : \E i, j \in DOMAIN lks :
           /\ i < j
           /\ lks[i] = Acq("wrapped_segment", "read", {})
           /\ lks[j].lock = "write_segment" /\ lks[j].mode = "write"


SegmentLocks == {"wrapped_segment", "write_segment"}
AuxiliarySets == {"deleted_points", "created_indexes", "deleted_indexes"}

(* a segment lock is requested with the guard of an auxiliary set in hand *)
SegmentUnderAuxiliary(lks) ==
    \E i \in DOMAIN lks :
        /\ lks[i].lock \in SegmentLocks
        /\ \E g \in lks[i].held : g[1] \in AuxiliarySets

(* C15: all proxy operations respect the global lock order holder -> segment
   -> auxiliary sets: no proxy operation requests a segment lock (wrapped or
   write, read or write mode) while it holds the lock of an auxiliary set
   (deleted_points, created_indexes, deleted_indexes). *)
C15_SegmentBeforeAuxiliary ==
    \A lks \in MutatorTraces \cup ReaderLocks : ~SegmentUnderAuxiliary(lks)


(* C16: flush() on a proxy reports only the durable baseline: it returns
   wrapped.version(), the value is the same across any proxy mutator, and no
   operation that the proxy accepted and stored only in the scratch write
   segment has an op_num <= the value flush() returns. *)
C16_FlushIsDurableBaseline ==
    [][\A c \in MutatorCalls :
          Stepped(c) =>
              /\ flush(Self) = Ok(Segment_version(wrapped_segment))
              /\ flush(Self)' = flush(Self)
              /\ write_segment' # write_segment => c.op_num > flush(Self)'.val]_vars


(* C17: overlay invariant: in every state reachable by proxy mutators from an
   empty scratch write segment and empty deleted_points, every PointId that
   is present in both wrapped and write is in deleted_points: a point of
   wrapped never gets a second live copy in write without its tombstone. *)
C17_OverlayInvariant ==
    \A p \in PointIds :
        (Segment_has_point(wrapped_segment, p) /\ Segment_has_point(write_segment, p))
            => p \in deleted_points

(* point 2 has been moved by a mutator that succeeded, point 1 has not *)
C17_Witness ==
    /\ Segment_has_point(wrapped_segment, 2)
    /\ Segment_has_point(write_segment, 2)
    /\ 2 \in deleted_points
    /\ 1 \notin deleted_points
    /\ ~Segment_has_point(write_segment, 1)
    /\ ~IsErr(ret)


(* what the point readers of the proxy return for every id *)
PointView(self) ==
    [p \in PointIds |-> <<has_point(self, p), vector(self, p), payload(self, p)>>]

(* C19: a failed mutator loses no point: if upsert_point, set_full_payload,
   set_payload, delete_payload or clear_payload returns an error, then for
   every PointId the proxy's has_point, vector and payload are the same as
   before the call; a point of wrapped is not left in deleted_points without
   its copy in write. *)
C19_FailedMutatorLosesNoPoint ==
    \A c \in TouchCalls :
        LET r == Invoke(Self, c)
        IN IsErr(r.res) => PointView(r.self) = PointView(Self)


(* every thread of D waits for a lock that another thread of D holds *)
Deadlocked(D) ==
    /\ D # {}
    /\ \A t \in D : \E u \in D : BlockedBy(t, u)

(* C18: deadlock freedom: when two sibling proxies that share one scratch
   write segment and one deleted_points set run their operations
   concurrently, together with an optimizer thread that takes the scratch
   write lock and then reads deleted_points for catch-up, no execution
   reaches a state where every thread of a group waits for a lock held by
   another of the group. *)
C18_NoDeadlock ==
    \A D \in SUBSET Threads : ~Deadlocked(D)

(* the same without the optimizer thread: the proxies alone *)
ProxiesNeverDeadlock ==
    \A D \in SUBSET {"proxy_a", "proxy_b"} : ~Deadlocked(D)


(* what a reader finds for a point of wrapped that no mutator has changed *)
FoundInWrapped(reader, point_id) ==
    CASE reader = "has_point" -> Ok(TRUE)
      [] reader = "vector" -> Segment_vector(wrapped_segment, point_id, "none")
      [] reader = "payload" -> Segment_payload(wrapped_segment, point_id, "none")

(* C20: a move is atomic for concurrent observers of the shared sets: while
   one thread executes a successful move of point p, any other thread that
   evaluates the read-redirection rule for p (deleted_points under its lock,
   then write or wrapped) always finds p with its vector and payload; it
   never observes p in deleted_points while p is still missing from write. *)
C20_MoveAtomic ==
    /\ observer.pc = "return" =>
           observer.seen = FoundInWrapped(observer.reader, observer.point_id)
    /\ (observer.pc = "segment" /\ observer.in_deleted
            /\ Guard("write_segment", "write") \notin MoverHolds) =>
           Segment_has_point(write_segment, observer.point_id)

====
